---- MODULE Spec2Model ----
(***************************************************************************)
(* menuvroom: the launcher's catalog cache (src/src/executables.rs) and    *)
(* its search/selection state machine (src/src/app.rs).                    *)
(*                                                                         *)
(* Strings are sequences of one-character strings, <<"a","b">> is "ab".    *)
(* Option<T> is a sequence of length at most one: <<>> is None, <<x>> is   *)
(* Some(x).  Vec indices are 0-based as in the source; position i of a     *)
(* Vec v is v[i+1] here.                                                   *)
(***************************************************************************)
EXTENDS Integers, Sequences, FiniteSets, TLC

VARIABLES
    \* ---- AppState (src/src/app.rs:17-25) ----
    search_entry,                 \* String
    executables,                  \* Vec<String>: the Catalog of the session
    matching_executable_indexes,  \* Vec<usize>: the ranked list
    selected_index,               \* usize
    ctrl_pressed,                 \* bool
    \* ---- the session around AppState ----
    status,           \* "running" | "exited" | "panicked" | "fatal"
    launched,         \* the commands handed to Command::spawn that were spawned
    overflow_checks,  \* build profile: TRUE = debug (overflow panics), FALSE = release (wraps)
    lastEvent,        \* history: the last window event handled
    prevSelected,     \* history: selected_index before the last event
    \* ---- the filesystem and the session start (src/src/executables.rs) ----
    clock,            \* current time in seconds (the unit of mtime())
    dirs,             \* directory name -> [exists, mtime, entries]
    cache,            \* <cache_dir>/executables.txt: [exists, mtime, content]
    config,           \* Config: include_binaries, include_desktop_files
    paths,            \* get_binary_dirs of the last session
    catalog,          \* Vec<Executable> returned to the last session
    decision,         \* "none" | "rebuild" | "load": should_invalidate_cache of the last session
    startStatus,      \* "none" | "ok" | "panicked": how the last session start ended
    lastOp,           \* history: "none" | "session" | "fs"
    \* ---- the cache encoding taken alone ----
    rt_catalog,       \* a Catalog
    rt_file,          \* the bytes written for it
    rt_loaded,        \* the entries loaded from those bytes
    rt_pc,            \* "start" | "encoded" | "decoded"
    \* ---- one function of executables.rs taken alone ----
    fn_in,            \* the arguments it is called with
    fn_out,           \* what it returned
    fn_pc,            \* "start" | "done"
    \* ---- session starts that overlap on one cache file ----
    s_pc,             \* session -> "start" | "rebuild" | "scanned" | "load" | "done" | "crashed"
    s_scan,           \* session -> the executables it scanned, sorted and deduplicated
    s_catalog,        \* session -> the Catalog it returned
    s_fresh,          \* history: session -> the content of the cache file it judged fresh
    rebuilt           \* history: the byte strings written by the rebuilds that finished

uiVars == <<search_entry, executables, matching_executable_indexes,
            selected_index, ctrl_pressed, status, launched, overflow_checks,
            lastEvent, prevSelected>>

cacheVars == <<clock, dirs, cache, config, paths, catalog, decision,
               startStatus, lastOp>>

rtVars == <<rt_catalog, rt_file, rt_loaded, rt_pc>>

fnVars == <<fn_in, fn_out, fn_pc>>

sessVars == <<s_pc, s_scan, s_catalog, s_fresh, rebuilt>>

vars == <<uiVars, cacheVars, rtVars, fnVars, sessVars>>

-----------------------------------------------------------------------------
(* Bounds of the model *)

MaxQueryLen == 2      \* longest query typed
MaxWordLen == 3       \* longest word of the large catalog
MaxSelected == 3      \* cap of selected_index where the code lets it grow
MaxClock == 2         \* last second of the clock
MaxRtLen == 3         \* entries scanned into a Catalog of the encoding model
MaxPathEntries == 2   \* entries of PATH, of extra_directories and of ignored_directories
MaxLines == 3         \* lines of a desktop file or of a cache file read alone
MaxEntries == 2       \* entries of a directory scanned alone
MaxExecLen == 3       \* characters of an Exec value parsed alone

-----------------------------------------------------------------------------
(* Strings *)

\* byte value of a character (String ordering in Rust is bytewise)
Code(c) ==
    CASE c = " " -> 32
      [] c = "%" -> 37
      [] c = "-" -> 45
      [] c = "." -> 46
      [] c = "0" -> 48
      [] c = "1" -> 49
      [] c = "2" -> 50
      [] c = "3" -> 51
      [] c = "4" -> 52
      [] c = "5" -> 53
      [] c = "6" -> 54
      [] c = "7" -> 55
      [] c = "8" -> 56
      [] c = "9" -> 57
      [] c = ":" -> 58
      [] c = "D" -> 68
      [] c = "a" -> 97
      [] c = "b" -> 98
      [] c = "c" -> 99
      [] c = "g" -> 103
      [] c = "h" -> 104
      [] c = "p" -> 112
      [] c = "q" -> 113

Min(a, b) == IF a <= b THEN a ELSE b

\* str::cmp: s < t, bytewise lexicographic
RECURSIVE StrLess(_, _)
StrLess(s, t) ==
    IF t = <<>> THEN FALSE
    ELSE IF s = <<>> THEN TRUE
    ELSE IF Code(Head(s)) # Code(Head(t)) THEN Code(Head(s)) < Code(Head(t))
    ELSE StrLess(Tail(s), Tail(t))

\* str::starts_with
StartsWith(s, p) ==
    /\ Len(p) <= Len(s)
    /\ SubSeq(s, 1, Len(p)) = p

\* str::contains(&str)
Contains(hay, needle) ==
    \E k \in 0..(Len(hay) - Len(needle)) :
        SubSeq(hay, k + 1, k + Len(needle)) = needle

\* str::ends_with
EndsWith(s, p) ==
    /\ Len(p) <= Len(s)
    /\ SubSeq(s, Len(s) - Len(p) + 1, Len(s)) = p

\* str::find: the 1-based position of the first occurrence of sep, 0 if none
FindFirst(s, sep) ==
    IF Contains(s, sep)
    THEN CHOOSE k \in 1..Len(s) :
           /\ k + Len(sep) - 1 <= Len(s)
           /\ SubSeq(s, k, k + Len(sep) - 1) = sep
           /\ \A j \in 1..(k - 1) : SubSeq(s, j, j + Len(sep) - 1) # sep
    ELSE 0

\* str::split(sep).collect(), sep non-empty; SplitAt is given the position k
\* of the first occurrence of sep in s
RECURSIVE Split(_, _)
SplitAt(s, sep, k) ==
    IF k = 0 THEN <<s>>
    ELSE <<SubSeq(s, 1, k - 1)>> \o Split(SubSeq(s, k + Len(sep), Len(s)), sep)

Split(s, sep) == SplitAt(s, sep, FindFirst(s, sep))

\* [String]::join(sep)
RECURSIVE Join(_, _)
Join(v, sep) ==
    IF v = <<>> THEN <<>>
    ELSE IF Len(v) = 1 THEN v[1]
    ELSE v[1] \o sep \o Join(Tail(v), sep)

\* BufRead::lines: the text split at "\n", a final "\n" ends the last line
DropEmptyLast(parts) ==
    IF parts[Len(parts)] = <<>> THEN SubSeq(parts, 1, Len(parts) - 1) ELSE parts

Lines(text) ==
    IF text = <<>> THEN <<>> ELSE DropEmptyLast(Split(text, <<"\n">>))

\* the insertion of the stable sort: x goes after every element whose key
\* is not greater
RECURSIVE InsertSorted(_, _)
InsertSorted(sorted, x) ==
    IF sorted = <<>> THEN <<x>>
    ELSE IF StrLess(x.key, Head(sorted).key) THEN <<x>> \o sorted
    ELSE <<Head(sorted)>> \o InsertSorted(Tail(sorted), x)

\* Vec::sort (stable) of a Vec of [key, val] by key
RECURSIVE SortByKey(_)
SortByKey(v) ==
    IF v = <<>> THEN <<>>
    ELSE InsertSorted(SortByKey(SubSeq(v, 1, Len(v) - 1)), v[Len(v)])

\* Vec::dedup of a Vec of [key, val]: of consecutive equal keys the first stays
RECURSIVE DedupByKey(_)
DedupByKey(v) ==
    IF Len(v) <= 1 THEN v
    ELSE LET rest == DedupByKey(Tail(v))
         IN  IF v[1].key = v[2].key THEN <<v[1]>> \o Tail(rest)
             ELSE <<v[1]>> \o rest

\* the permutations of a finite set, as sequences
RECURSIVE PermSeqs(_)
PermSeqs(S) ==
    IF S = {} THEN {<<>>}
    ELSE UNION {{<<x>> \o t : t \in PermSeqs(S \ {x})} : x \in S}

\* all strings over alphabet A of length lo..hi
StringsOf(A, lo, hi) == UNION {[1..n -> A] : n \in lo..hi}

\* Vec::insert(0, x)
InsertFront(v, x) == <<x>> \o v

\* Vec<String>::sort on a set of distinct strings: the ascending sequence
RECURSIVE SortedSeqOf(_)
SortedSeqOf(S) ==
    IF S = {} THEN <<>>
    ELSE LET m == CHOOSE x \in S : \A y \in S \ {x} : StrLess(x, y)
         IN  <<m>> \o SortedSeqOf(S \ {m})

-----------------------------------------------------------------------------
(* AppState, src/src/app.rs *)

\* the loop body with insert(0, i) in place of push(i)
RankStepFront(acc, i, display_name, query) ==
    LET afterExact == IF display_name = query THEN InsertFront(acc, i) ELSE acc
    IN  IF Contains(display_name, query) THEN InsertFront(afterExact, i) ELSE afterExact

\* the loop body without the `contains` test: only equal texts are ranked
RankStepExactOnly(acc, i, display_name, query) ==
    IF display_name = query THEN Append(InsertFront(acc, i), i) ELSE acc

\* the loop body of update_matching_executable_indexes for Catalog index i
RankStep(acc, i, display_name, query) ==
    LET afterExact == IF display_name = query THEN InsertFront(acc, i) ELSE acc
    IN  IF Contains(display_name, query) THEN Append(afterExact, i) ELSE afterExact

\* for i in 0..self.executables.len()
RECURSIVE RankLoop(_, _, _, _)
RankLoop(acc, i, execs, query) ==
    IF i >= Len(execs) THEN acc
    ELSE RankLoop(RankStep(acc, i, execs[i + 1], query), i + 1, execs, query)

\* update_matching_executable_indexes without `self.selected_index = 0`
update_matching_keeps_selected(execs, query, sel) ==
    [selected |-> sel,
     ranked   |-> IF query = <<>> THEN <<>> ELSE RankLoop(<<>>, 0, execs, query)]

\* AppState::update_matching_executable_indexes: the new (ranked, selected)
update_matching_executable_indexes(execs, query, sel) ==
    [selected |-> 0,
     ranked   |-> IF query = <<>> THEN <<>> ELSE RankLoop(<<>>, 0, execs, query)]

\* String::pop
StrPop(s) == IF s = <<>> THEN s ELSE SubSeq(s, 1, Len(s) - 1)

\* usize subtraction `len - 1`: None stands for the overflowing 0 - 1
UsizeSubOne(n) == IF n = 0 THEN <<>> ELSE <<n - 1>>

\* AppState::increment_selected_index.  `len - 1` underflows on an empty
\* ranked list: a debug build panics, a release build wraps to usize::MAX,
\* and min(selected + 1, usize::MAX) is then selected + 1.
increment_selected_index(sel, len, checks) ==
    LET last == UsizeSubOne(len)
    IN  IF last = <<>>
        THEN IF checks THEN [panic |-> TRUE, selected |-> sel]
                       ELSE [panic |-> FALSE, selected |-> sel + 1]
        ELSE [panic |-> FALSE, selected |-> Min(sel + 1, last[1])]

\* AppState::decrement_selected_index
decrement_selected_index(sel) == IF sel > 0 THEN sel - 1 ELSE sel

\* AppState::get_executable
get_executable(execs, ranked, index) ==
    IF index < Len(ranked) THEN <<execs[ranked[index + 1] + 1]>> ELSE <<>>

\* AppState::get_selected_executable
get_selected_executable(execs, ranked, sel) ==
    IF sel >= Len(ranked) THEN <<>> ELSE <<execs[ranked[sel + 1] + 1]>>

\* the digit arms of the Character match under ctrl_pressed: the ranked
\* position a key addresses, None for every other key
\* the character of a one-digit number, as format!("{}", n) writes it
DigitChar(n) == CHOOSE c \in {"0", "1", "2", "3", "4", "5", "6", "7", "8", "9"} :
                    Code(c) - Code("0") = n

\* "(Ctrl+{})"
CtrlHint(c) == <<"(", "C", "t", "r", "l", "+", c, ")">>

\* get_index_hint with the 0-based position in every hint
get_index_hint_zero_based(i) ==
    IF i <= 9 THEN CtrlHint(DigitChar(i)) ELSE <<>>

\* get_index_hint of get_text_buffers
get_index_hint(i) ==
    IF i <= 8 THEN CtrlHint(DigitChar(i + 1))
    ELSE IF i = 9 THEN CtrlHint("0")
    ELSE <<>>

\* the text of the row of ranked position i: format!("{} {}", executable,
\* get_index_hint(i))
RowText(executable, hint) == executable \o <<" ">> \o hint

\* AppState::get_text_buffers: the text of the query buffer followed by the
\* texts of the rows, one per ranked position
get_text_buffers(execs, ranked, query) ==
    <<query>> \o [i \in 1..Len(ranked) |->
                     RowText(execs[ranked[i] + 1], get_index_hint(i - 1))]

HotkeyIndexOneBased(c) ==
    IF c \in {"1", "2", "3", "4", "5", "6", "7", "8", "9"}
    THEN <<Code(c) - Code("0")>>
    ELSE IF c = "0" THEN <<9>> ELSE <<>>

HotkeyIndex(c) ==
    CASE c = "1" -> <<0>>
      [] c = "2" -> <<1>>
      [] c = "3" -> <<2>>
      [] c = "4" -> <<3>>
      [] c = "5" -> <<4>>
      [] c = "6" -> <<5>>
      [] c = "7" -> <<6>>
      [] c = "8" -> <<7>>
      [] c = "9" -> <<8>>
      [] c = "0" -> <<9>>
      [] OTHER   -> <<>>

\* run_executable: what the filesystem and spawn can answer
LaunchOutcomes == {"not_found", "spawn_ok", "spawn_err"}

\* run_executable with a second spawn of the same command
run_executable_twice(outcome, executable, done) ==
    CASE outcome = "not_found" -> [status |-> "fatal",  launched |-> done]
      [] outcome = "spawn_ok"  -> [status |-> "exited",
                                   launched |-> Append(Append(done, executable), executable)]
      [] outcome = "spawn_err" -> [status |-> "exited", launched |-> done]

\* run_executable(directories, executable) followed by event_loop.exit():
\* the session status and the launched list after the call
run_executable(outcome, executable, done) ==
    CASE outcome = "not_found" -> [status |-> "fatal",  launched |-> done]
      [] outcome = "spawn_ok"  -> [status |-> "exited", launched |-> Append(done, executable)]
      [] outcome = "spawn_err" -> [status |-> "exited", launched |-> done]

-----------------------------------------------------------------------------
(* Executable and the cache encoding, src/src/executables.rs *)

\* Executable::new_binary
new_binary(binary_name) == [command |-> binary_name, display_name |-> <<>>]

\* Executable::new_desktop_file
new_desktop_file(command, display_name) ==
    [command |-> command, display_name |-> <<display_name>>]

\* Executable::get_display_text
get_display_text(e) ==
    IF e.display_name # <<>> THEN e.display_name[1] ELSE e.command

\* impl ToString for Executable
to_string(e) ==
    IF e.display_name # <<>>
    THEN <<"D", ":">> \o e.display_name[1] \o <<" ", "-", " ">> \o e.command
    ELSE e.command

\* executables.iter().map(|e| e.to_string()).collect().join("\n")
EncodeCatalog(execs) ==
    Join([i \in 1..Len(execs) |-> to_string(execs[i])], <<"\n">>)

\* executable_data of a `D:` line: the desktop entry, if it has 2 parts
DecodeDesktop(executable_data) ==
    IF Len(executable_data) # 2 THEN <<>>
    ELSE <<new_desktop_file(executable_data[2], executable_data[1])>>

\* the body of the load loop for one line: the entries it pushes (0 or 1)
DecodeLine(entry) ==
    IF StartsWith(entry, <<"D", ":">>)
    THEN DecodeDesktop(Split(Split(entry, <<":">>)[2], <<" ", "-", " ">>))
    ELSE IF Contains(entry, <<" ">>) THEN <<>>
    ELSE <<new_binary(entry)>>

\* for line_result in BufReader::new(file).lines()
RECURSIVE DecodeLines(_)
DecodeLines(ls) ==
    IF ls = <<>> THEN <<>>
    ELSE DecodeLine(Head(ls)) \o DecodeLines(Tail(ls))

\* the load branch of get_executables_for_config_and_paths
LoadCache(content) == DecodeLines(Lines(content))

\* executables.sort(); executables.dedup(): order and equality are those of
\* get_display_text
Keyed(execs) == [i \in 1..Len(execs) |-> [key |-> get_display_text(execs[i]), val |-> execs[i]]]
Unkeyed(kv) == [i \in 1..Len(kv) |-> kv[i].val]
SortDedup(execs) == Unkeyed(DedupByKey(SortByKey(Keyed(execs))))

\* paths.sort(); paths.dedup() of get_binary_dirs
SortDedupStrings(v) ==
    Unkeyed(DedupByKey(SortByKey([i \in 1..Len(v) |-> [key |-> v[i], val |-> v[i]]])))

\* OpenOptions::new().write(true).open(..) then write_all(bytes): the file
\* is not truncated, the bytes go over the old content from offset 0; an
\* empty buffer issues no write and leaves the file as it is
WriteAll(file, bytes, now) ==
    IF bytes = <<>> THEN file
    ELSE [exists  |-> TRUE,
          mtime   |-> now,
          content |-> bytes \o SubSeq(file.content, Len(bytes) + 1, Len(file.content))]

-----------------------------------------------------------------------------
(* Directory scan, get_executables_from_directory *)

\* \w of the regex crate, over the characters of the model
WordChars == {"a", "b", "c", "g", "h", "p", "q", "D", "U", "N", "E",
              "m", "e", "x", "0", "1", "2", "3", "4", "5", "6", "7", "8", "9", "_"}

\* Regex::new(r"%\w").replace_all(entry, "")
RECURSIVE StripFieldCodes(_)
StripFieldCodes(s) ==
    IF s = <<>> THEN <<>>
    ELSE IF Head(s) = "%" /\ Len(s) >= 2 /\ s[2] \in WordChars
         THEN StripFieldCodes(SubSeq(s, 3, Len(s)))
         ELSE <<Head(s)>> \o StripFieldCodes(Tail(s))

\* the body of the line loop for one line: name and exec after it, panic
\* when an unwrap() fails
ParseLine(entry, parts, name, exec) ==
    IF StartsWith(entry, <<"N", "a", "m", "e">>)
    THEN IF Len(parts) < 2 THEN [panic |-> TRUE, name |-> name, exec |-> exec]
         ELSE [panic |-> FALSE, name |-> <<parts[2]>>, exec |-> exec]
    ELSE IF StartsWith(entry, <<"E", "x", "e", "c">>)
    THEN IF Len(parts) < 2 THEN [panic |-> TRUE, name |-> name, exec |-> exec]
         ELSE [panic |-> FALSE, name |-> name,
               exec |-> <<StripFieldCodes(
                            SubSeq(entry, FindFirst(entry, <<"=">>) + 1, Len(entry)))>>]
    ELSE [panic |-> FALSE, name |-> name, exec |-> exec]

\* the line loop over a desktop file: [panic, name, exec] at its end; the
\* loop breaks once both name and exec are set
RECURSIVE ParseDesktopLines(_, _, _)
ParseRest(ls, st) ==
    IF st.panic \/ (st.name # <<>> /\ st.exec # <<>>) THEN st
    ELSE ParseDesktopLines(Tail(ls), st.name, st.exec)

ParseDesktopLines(ls, name, exec) ==
    IF ls = <<>> THEN [panic |-> FALSE, name |-> name, exec |-> exec]
    ELSE ParseRest(ls, ParseLine(Head(ls), Split(Head(ls), <<"=">>), name, exec))

\* entry.path().extension() == "desktop"
is_desktop_file(name) ==
    /\ EndsWith(name, <<".", "d", "e", "s", "k", "t", "o", "p">>)
    /\ Len(name) > 8

\* permissions.mode() & 0o100 != 0
OwnerExecBit(mode) == (mode \div 64) % 2 = 1

\* what the desktop branch pushes for the parse result r
DesktopEntry(r) ==
    IF r.panic THEN [panic |-> TRUE, out |-> <<>>]
    ELSE IF r.name = <<>> \/ r.exec = <<>> THEN [panic |-> FALSE, out |-> <<>>]
    ELSE [panic |-> FALSE, out |-> <<new_desktop_file(r.exec[1], r.name[1])>>]

\* the body of the entry loop for one directory entry f = [name, ftype,
\* mode, lines]: [panic, out] with out the entries pushed (0 or 1)
ScanEntry(f, include_binaries, include_desktop_files) ==
    IF ~is_desktop_file(f.name) /\ ~include_binaries
    THEN [panic |-> FALSE, out |-> <<>>]
    ELSE IF is_desktop_file(f.name) /\ include_desktop_files
    THEN DesktopEntry(ParseDesktopLines(f.lines, <<>>, <<>>))
    ELSE IF f.ftype \in {"file", "symlink"} /\ OwnerExecBit(f.mode)
    THEN [panic |-> FALSE, out |-> <<new_binary(f.name)>>]
    ELSE [panic |-> FALSE, out |-> <<>>]

\* a scan result followed by the result of what comes after it: a panic
\* ends the scan
ThenScan(r, rest) ==
    IF r.panic THEN r
    ELSE [panic |-> rest.panic, out |-> r.out \o rest.out]

\* for entry in entries, over the listing (a sequence of directory entries)
RECURSIVE ScanListing(_, _, _)
ScanListing(listing, ib, idf) ==
    IF listing = <<>> THEN [panic |-> FALSE, out |-> <<>>]
    ELSE ThenScan(ScanEntry(Head(listing), ib, idf),
                  ScanListing(Tail(listing), ib, idf))

-----------------------------------------------------------------------------
(* The filesystem of the cache model *)

DirNames == {<<"p">>, <<"q">>}

\* env PATH, config.extra_directories, config.ignored_directories
PathVar == << <<"p">> >>
ExtraDirectories == << <<"q">> >>
IgnoredDirectories == <<>>

FileIds == {"bin_a", "bin_b", "desk", "bad"}

\* the directory entries that can exist: two executables, a desktop file
\* `g.desktop` and a desktop file `h.desktop` whose Name line has no `=`
FileInfo(id) ==
    CASE id = "bin_a" -> [name |-> <<"a">>, ftype |-> "file", mode |-> 493, lines |-> <<>>]
      [] id = "bin_b" -> [name |-> <<"b">>, ftype |-> "symlink", mode |-> 511, lines |-> <<>>]
      [] id = "desk"  -> [name |-> <<"g", ".", "d", "e", "s", "k", "t", "o", "p">>,
                          ftype |-> "file", mode |-> 420,
                          lines |-> << <<"N", "a", "m", "e", "=", "b">>,
                                       <<"E", "x", "e", "c", "=", "a", " ", "%", "U">> >>]
      [] id = "bad"   -> [name |-> <<"h", ".", "d", "e", "s", "k", "t", "o", "p">>,
                          ftype |-> "file", mode |-> 420,
                          lines |-> << <<"N", "a", "m", "e">> >>]

\* where each of them can be put
Placement(d) == IF d = <<"p">> THEN {"bin_a", "bin_b"} ELSE {"desk", "bad"}

\* fs::read_dir returns the entries in an order of the filesystem's choice
Listings == {l \in [DirNames -> UNION {PermSeqs(dirs[d].entries) : d \in DirNames}] :
                \A d \in DirNames : l[d] \in PermSeqs(dirs[d].entries)}

-----------------------------------------------------------------------------
(* Session start: get_binary_dirs and get_executables_for_config_and_paths *)

InSeq(v, x) == \E i \in 1..Len(v) : v[i] = x

\* Path::exists
DirExists(fs, d) == d \in DOMAIN fs /\ fs[d].exists

\* get_binary_dirs
get_binary_dirs(path_var, extra, ignored, fs) ==
    LET Keep(path) == DirExists(fs, path) /\ ~InSeq(ignored, path)
    IN  SortDedupStrings(SelectSeq(path_var, Keep) \o extra)

\* the mtime loop with `>=` in place of `>`
RECURSIVE AnyDirNewerOrEqual(_, _, _, _)
AnyDirNewerOrEqual(executable_dirs, i, fs, cache_last_update_time) ==
    IF i > Len(executable_dirs) THEN FALSE
    ELSE IF ~DirExists(fs, executable_dirs[i])
    THEN AnyDirNewerOrEqual(executable_dirs, i + 1, fs, cache_last_update_time)
    ELSE IF fs[executable_dirs[i]].mtime >= cache_last_update_time THEN TRUE
    ELSE AnyDirNewerOrEqual(executable_dirs, i + 1, fs, cache_last_update_time)

\* the mtime loop of should_invalidate_cache from position i (1-based)
RECURSIVE AnyDirNewer(_, _, _, _)
AnyDirNewer(executable_dirs, i, fs, cache_last_update_time) ==
    IF i > Len(executable_dirs) THEN FALSE
    ELSE IF ~DirExists(fs, executable_dirs[i])
    THEN AnyDirNewer(executable_dirs, i + 1, fs, cache_last_update_time)
    ELSE IF fs[executable_dirs[i]].mtime > cache_last_update_time THEN TRUE
    ELSE AnyDirNewer(executable_dirs, i + 1, fs, cache_last_update_time)

\* should_invalidate_cache: its result and the cache file it leaves
should_invalidate_cache(file, executable_dirs, fs, now) ==
    IF ~file.exists
    THEN [invalidate |-> TRUE,
          file |-> [exists |-> TRUE, mtime |-> now, content |-> <<>>]]
    ELSE [invalidate |-> AnyDirNewer(executable_dirs, 1, fs, file.mtime),
          file |-> file]

\* get_executables_from_directory(dir, ..): a directory that cannot be
\* read is Err and contributes nothing
ScanDir(d, fs, listing, cfg) ==
    IF DirExists(fs, d)
    THEN ScanListing([j \in 1..Len(listing[d]) |-> FileInfo(listing[d][j])],
                     cfg.include_binaries, cfg.include_desktop_files)
    ELSE [panic |-> FALSE, out |-> <<>>]

\* paths.iter().map(get_executables_from_directory)...flatten(), from
\* position i
RECURSIVE ScanPaths(_, _, _, _, _)
ScanPaths(ps, i, fs, listing, cfg) ==
    IF i > Len(ps) THEN [panic |-> FALSE, out |-> <<>>]
    ELSE ThenScan(ScanDir(ps[i], fs, listing, cfg),
                  ScanPaths(ps, i + 1, fs, listing, cfg))

\* the rebuild branch once the scan is done: sort, dedup, write
Rebuild(file, scan, execs, now) ==
    IF scan.panic
    THEN [decision |-> "rebuild", status |-> "panicked",
          file |-> file, executables |-> <<>>]
    ELSE [decision |-> "rebuild", status |-> "ok",
          file |-> WriteAll(file, EncodeCatalog(execs), now),
          executables |-> execs]

\* the two branches, inv being the result of should_invalidate_cache and
\* scan the result of the scan
Branch(file, inv, scan, now) ==
    IF inv.invalidate
    THEN Rebuild(inv.file, scan, SortDedup(scan.out), now)
    ELSE [decision |-> "load", status |-> "ok",
          file |-> file, executables |-> LoadCache(file.content)]

\* get_executables_for_config_and_paths: [decision, status, file, executables]
get_executables_for_config_and_paths(file, ps, fs, listing, cfg, now) ==
    Branch(file, should_invalidate_cache(file, ps, fs, now),
           ScanPaths(ps, 1, fs, listing, cfg), now)

-----------------------------------------------------------------------------
(* The catalogs a session starts with *)

Letters == {"a", "b"}

\* the keys of WindowEvent::KeyboardInput with Key::Character
CharKeys == {"a", "b", "1", "0"}

\* the digit keys matched by the hotkey arm, src/src/app.rs:426-435
DigitKeys == {"0", "1", "2", "3", "4", "5", "6", "7", "8", "9"}

SmallWords == {<<"a">>, <<"a", "b">>, <<"b">>}

\* every word over Letters up to MaxWordLen, sorted: more than K entries
\* contain "a"
BigCatalog == SortedSeqOf(StringsOf(Letters, 1, MaxWordLen))

Catalogs == {SortedSeqOf(S) : S \in SUBSET SmallWords} \cup {BigCatalog}

-----------------------------------------------------------------------------
(* Values of the variables a specification does not use *)

CacheIdle ==
    /\ clock = 0
    /\ dirs = [d \in DirNames |-> [exists |-> FALSE, mtime |-> 0, entries |-> {}]]
    /\ cache = [exists |-> FALSE, mtime |-> 0, content |-> <<>>]
    /\ config = [include_binaries |-> TRUE, include_desktop_files |-> TRUE]
    /\ paths = <<>>
    /\ catalog = <<>>
    /\ decision = "none"
    /\ startStatus = "none"
    /\ lastOp = "none"

RtIdle ==
    /\ rt_catalog = <<>>
    /\ rt_file = <<>>
    /\ rt_loaded = <<>>
    /\ rt_pc = "start"

FnIdle ==
    /\ fn_in = <<>>
    /\ fn_out = <<>>
    /\ fn_pc = "start"

\* the session starts of the overlap model
Sessions == {"s1", "s2"}

SessIdle ==
    /\ s_pc = [s \in Sessions |-> "start"]
    /\ s_scan = [s \in Sessions |-> <<>>]
    /\ s_catalog = [s \in Sessions |-> <<>>]
    /\ s_fresh = [s \in Sessions |-> <<>>]
    /\ rebuilt = {}

UiIdle ==
    /\ search_entry = <<>>
    /\ executables = <<>>
    /\ matching_executable_indexes = <<>>
    /\ selected_index = 0
    /\ ctrl_pressed = FALSE
    /\ status = "running"
    /\ launched = <<>>
    /\ overflow_checks = FALSE
    /\ lastEvent = "none"
    /\ prevSelected = 0

-----------------------------------------------------------------------------
(* Session of the window: App::window_event, src/src/app.rs:270-461 *)

Init ==
    /\ search_entry = <<>>
    /\ executables \in Catalogs
    /\ matching_executable_indexes = <<>>
    /\ selected_index = 0
    /\ ctrl_pressed = FALSE
    /\ status = "running"
    /\ launched = <<>>
    /\ overflow_checks \in BOOLEAN
    /\ lastEvent = "none"
    /\ prevSelected = 0
    /\ CacheIdle
    /\ RtIdle
    /\ FnIdle
    /\ SessIdle

Running == status = "running"

Note(ev) ==
    /\ lastEvent' = ev
    /\ prevSelected' = selected_index
    /\ UNCHANGED <<cacheVars, rtVars, fnVars, sessVars>>

\* self.state.append_to_search(s)
AppendToSearch(s) ==
    LET q == search_entry \o s
        r == update_matching_executable_indexes(executables, q, selected_index)
    IN  /\ search_entry' = q
        /\ matching_executable_indexes' = r.ranked
        /\ selected_index' = r.selected

\* WindowEvent::CloseRequested
CloseRequested ==
    /\ Running
    /\ status' = "exited"
    /\ Note("Close")
    /\ UNCHANGED <<search_entry, executables, matching_executable_indexes,
                   selected_index, ctrl_pressed, launched, overflow_checks>>

\* pressed, NamedKey::Control
ControlPressed ==
    /\ Running
    /\ ctrl_pressed' = TRUE
    /\ Note("CtrlDown")
    /\ UNCHANGED <<search_entry, executables, matching_executable_indexes,
                   selected_index, status, launched, overflow_checks>>

ControlReleasedKeepsFlag ==
    /\ Running
    /\ Note("CtrlUp")
    /\ UNCHANGED <<search_entry, executables, matching_executable_indexes,
                   selected_index, ctrl_pressed, status, launched,
                   overflow_checks>>

\* released, NamedKey::Control
ControlReleased ==
    /\ Running
    /\ ctrl_pressed' = FALSE
    /\ Note("CtrlUp")
    /\ UNCHANGED <<search_entry, executables, matching_executable_indexes,
                   selected_index, status, launched, overflow_checks>>

\* pressed, NamedKey::Enter
Enter ==
    /\ Running
    /\ \E outcome \in LaunchOutcomes :
         LET ex == get_selected_executable(executables,
                       matching_executable_indexes, selected_index)
         IN  IF ex # <<>>
             THEN LET r == run_executable(outcome, ex[1], launched)
                  IN  /\ status' = r.status
                      /\ launched' = r.launched
             ELSE /\ status' = "exited"
                  /\ launched' = launched
    /\ Note("Enter")
    /\ UNCHANGED <<search_entry, executables, matching_executable_indexes,
                   selected_index, ctrl_pressed, overflow_checks>>

EscapeIgnored ==
    /\ Running
    /\ Note("Escape")
    /\ UNCHANGED <<search_entry, executables, matching_executable_indexes,
                   selected_index, ctrl_pressed, status, launched,
                   overflow_checks>>

\* pressed, NamedKey::Escape
Escape ==
    /\ Running
    /\ status' = "exited"
    /\ Note("Escape")
    /\ UNCHANGED <<search_entry, executables, matching_executable_indexes,
                   selected_index, ctrl_pressed, launched, overflow_checks>>

\* the ArrowUp arm calling search_backspace in place of
\* decrement_selected_index
ArrowUpPopsQuery ==
    /\ Running
    /\ LET q == StrPop(search_entry)
           r == update_matching_executable_indexes(executables, q, selected_index)
       IN  /\ search_entry' = q
           /\ matching_executable_indexes' = r.ranked
           /\ selected_index' = r.selected
    /\ Note("ArrowUp")
    /\ UNCHANGED <<executables, ctrl_pressed, status, launched, overflow_checks>>

\* pressed, NamedKey::ArrowUp
ArrowUp ==
    /\ Running
    /\ selected_index' = decrement_selected_index(selected_index)
    /\ Note("ArrowUp")
    /\ UNCHANGED <<search_entry, executables, matching_executable_indexes,
                   ctrl_pressed, status, launched, overflow_checks>>

\* pressed, NamedKey::ArrowDown
ArrowDown ==
    /\ Running
    /\ selected_index < MaxSelected
    /\ LET r == increment_selected_index(selected_index,
                    Len(matching_executable_indexes), overflow_checks)
       IN  /\ selected_index' = r.selected
           /\ status' = IF r.panic THEN "panicked" ELSE status
    /\ Note("ArrowDown")
    /\ UNCHANGED <<search_entry, executables, matching_executable_indexes,
                   ctrl_pressed, launched, overflow_checks>>

BackspaceKeepsRanked ==
    /\ Running
    /\ search_entry' = StrPop(search_entry)
    /\ selected_index' = 0
    /\ Note("Backspace")
    /\ UNCHANGED <<executables, matching_executable_indexes, ctrl_pressed,
                   status, launched, overflow_checks>>

\* pressed, NamedKey::Backspace
Backspace ==
    /\ Running
    /\ LET q == StrPop(search_entry)
           r == update_matching_executable_indexes(executables, q, selected_index)
       IN  /\ search_entry' = q
           /\ matching_executable_indexes' = r.ranked
           /\ selected_index' = r.selected
    /\ Note("Backspace")
    /\ UNCHANGED <<executables, ctrl_pressed, status, launched, overflow_checks>>

\* pressed, NamedKey::Space
Space ==
    /\ Running
    /\ Len(search_entry) < MaxQueryLen
    /\ AppendToSearch(<<" ">>)
    /\ Note("Insert")
    /\ UNCHANGED <<executables, ctrl_pressed, status, launched, overflow_checks>>

\* pressed, Key::Character(c), ctrl_pressed: the hotkey arm
Hotkey(c) ==
    /\ Running
    /\ ctrl_pressed
    /\ \E outcome \in LaunchOutcomes :
         LET idx == HotkeyIndex(c)
             ex  == IF idx = <<>> THEN <<>>
                    ELSE get_executable(executables,
                             matching_executable_indexes, idx[1])
         IN  IF ex # <<>>
             THEN LET r == run_executable(outcome, ex[1], launched)
                  IN  /\ status' = r.status
                      /\ launched' = r.launched
             ELSE UNCHANGED <<status, launched>>
    /\ Note("Hotkey")
    /\ UNCHANGED <<search_entry, executables, matching_executable_indexes,
                   selected_index, ctrl_pressed, overflow_checks>>

\* pressed, Key::Character(c), not ctrl_pressed: the insert arm
Insert(c) ==
    /\ Running
    /\ ~ctrl_pressed
    /\ Len(search_entry) < MaxQueryLen
    /\ AppendToSearch(<<c>>)
    /\ Note("Insert")
    /\ UNCHANGED <<executables, ctrl_pressed, status, launched, overflow_checks>>

\* pressed, Key::Character(c): every digit is tried as a hotkey, the keys of
\* CharKeys are the ones typed into the query
Character ==
    \E c \in CharKeys \cup DigitKeys : Hotkey(c) \/ (c \in CharKeys /\ Insert(c))

Next ==
    \/ CloseRequested
    \/ ControlPressed
    \/ ControlReleased
    \/ Enter
    \/ Escape
    \/ ArrowUp
    \/ ArrowDown
    \/ Backspace
    \/ Space
    \/ Character

Spec == Init /\ [][Next]_vars

-----------------------------------------------------------------------------
(* Sessions over a changing filesystem: app_main up to the Catalog,        *)
(* src/src/app.rs:493-497 and src/src/executables.rs                       *)

CacheInit ==
    /\ clock = 0
    /\ dirs \in [DirNames -> {[exists |-> TRUE, mtime |-> 0, entries |-> {}],
                              [exists |-> FALSE, mtime |-> 0, entries |-> {}]}]
    /\ cache = [exists |-> FALSE, mtime |-> 0, content |-> <<>>]
    /\ config \in [include_binaries : BOOLEAN, include_desktop_files : BOOLEAN]
    /\ paths = <<>>
    /\ catalog = <<>>
    /\ decision = "none"
    /\ startStatus = "none"
    /\ lastOp = "none"
    /\ UiIdle
    /\ RtIdle
    /\ FnIdle
    /\ SessIdle

FsNote ==
    /\ lastOp' = "fs"
    /\ UNCHANGED <<config, paths, catalog, decision, startStatus>>
    /\ UNCHANGED <<uiVars, rtVars, fnVars, sessVars>>

\* a second passes
Tick ==
    /\ clock < MaxClock
    /\ clock' = clock + 1
    /\ UNCHANGED <<dirs, cache>>
    /\ FsNote

\* a file is created in directory d
AddFile(d, f) ==
    /\ dirs[d].exists
    /\ f \in Placement(d) \ dirs[d].entries
    /\ dirs' = [dirs EXCEPT ![d].entries = @ \cup {f}, ![d].mtime = clock]
    /\ UNCHANGED <<clock, cache>>
    /\ FsNote

\* a file is deleted from directory d
RemoveFile(d, f) ==
    /\ dirs[d].exists
    /\ f \in dirs[d].entries
    /\ dirs' = [dirs EXCEPT ![d].entries = @ \ {f}, ![d].mtime = clock]
    /\ UNCHANGED <<clock, cache>>
    /\ FsNote

\* directory d is deleted with what it holds
RemoveDir(d) ==
    /\ dirs[d].exists
    /\ dirs' = [dirs EXCEPT ![d] = [exists |-> FALSE, mtime |-> 0, entries |-> {}]]
    /\ UNCHANGED <<clock, cache>>
    /\ FsNote

\* directory d is created
CreateDir(d) ==
    /\ ~dirs[d].exists
    /\ dirs' = [dirs EXCEPT ![d] = [exists |-> TRUE, mtime |-> clock, entries |-> {}]]
    /\ UNCHANGED <<clock, cache>>
    /\ FsNote

\* the user deletes the cache file
DeleteCache ==
    /\ cache.exists
    /\ cache' = [exists |-> FALSE, mtime |-> 0, content |-> <<>>]
    /\ UNCHANGED <<clock, dirs>>
    /\ FsNote

\* the session start leaves r = [decision, status, file, executables]
SessionStarted(ps, r) ==
    /\ paths' = ps
    /\ cache' = r.file
    /\ catalog' = r.executables
    /\ decision' = r.decision
    /\ startStatus' = r.status

\* get_executables_for_config_and_paths(&config, &paths) under a listing
SessionOver(ps, listing) ==
    SessionStarted(ps, get_executables_for_config_and_paths(cache, ps, dirs,
                                                            listing, config, clock))

\* app_main: get_binary_dirs, then get_executables_for_config_and_paths
RunSession ==
    /\ \E listing \in Listings :
         SessionOver(get_binary_dirs(PathVar, ExtraDirectories, IgnoredDirectories, dirs),
                     listing)
    /\ lastOp' = "session"
    /\ UNCHANGED <<clock, dirs, config>>
    /\ UNCHANGED <<uiVars, rtVars, fnVars, sessVars>>

CacheNext ==
    \/ Tick
    \/ \E d \in DirNames, f \in FileIds : AddFile(d, f)
    \/ \E d \in DirNames, f \in FileIds : RemoveFile(d, f)
    \/ \E d \in DirNames : RemoveDir(d)
    \/ \E d \in DirNames : CreateDir(d)
    \/ DeleteCache
    \/ RunSession

CacheSpec == CacheInit /\ [][CacheNext]_vars

-----------------------------------------------------------------------------
(* Session starts that overlap: get_executables_for_config_and_paths of    *)
(* several processes, step by step, on one cache file                      *)

OverlapInit ==
    /\ clock = 0
    /\ dirs = [d \in DirNames |-> [exists |-> TRUE, mtime |-> 0, entries |-> {}]]
    /\ cache = [exists |-> FALSE, mtime |-> 0, content |-> <<>>]
    /\ config \in [include_binaries : BOOLEAN, include_desktop_files : BOOLEAN]
    /\ paths = <<>>
    /\ catalog = <<>>
    /\ decision = "none"
    /\ startStatus = "none"
    /\ lastOp = "none"
    /\ SessIdle
    /\ UiIdle
    /\ RtIdle
    /\ FnIdle

\* what a step of session s leaves alone
SessionFrame ==
    /\ UNCHANGED <<clock, dirs, config, paths, catalog, decision, startStatus,
                   lastOp>>
    /\ UNCHANGED <<uiVars, rtVars, fnVars>>

\* session s has called should_invalidate_cache and got inv
SessionJudged(s, inv) ==
    /\ cache' = inv.file
    /\ s_pc' = [s_pc EXCEPT ![s] = IF inv.invalidate THEN "rebuild" ELSE "load"]
    /\ s_fresh' = [s_fresh EXCEPT ![s] = IF inv.invalidate THEN <<>>
                                         ELSE <<cache.content>>]

\* should_invalidate_cache(&config, &paths): a missing cache file is created
SessionCheck(s) ==
    /\ s_pc[s] = "start"
    /\ SessionJudged(s, should_invalidate_cache(
                            cache,
                            get_binary_dirs(PathVar, ExtraDirectories,
                                            IgnoredDirectories, dirs),
                            dirs, clock))
    /\ UNCHANGED <<s_scan, s_catalog, rebuilt>>
    /\ SessionFrame

\* session s has scanned the directories and got scan
SessionScanned(s, scan) ==
    IF scan.panic
    THEN /\ s_pc' = [s_pc EXCEPT ![s] = "crashed"]
         /\ UNCHANGED s_scan
    ELSE /\ s_pc' = [s_pc EXCEPT ![s] = "scanned"]
         /\ s_scan' = [s_scan EXCEPT ![s] = SortDedup(scan.out)]

\* the scan of the rebuild branch with sort and dedup; an unwrap() on a
\* desktop file ends the process with the cache file as it is
SessionScan(s) ==
    /\ s_pc[s] = "rebuild"
    /\ \E listing \in Listings :
         SessionScanned(s, ScanPaths(get_binary_dirs(PathVar, ExtraDirectories,
                                                     IgnoredDirectories, dirs),
                                     1, dirs, listing, config))
    /\ UNCHANGED <<cache, s_catalog, s_fresh, rebuilt>>
    /\ SessionFrame

\* the write of the rebuild branch: open(write), write_all
SessionWrite(s) ==
    /\ s_pc[s] = "scanned"
    /\ cache' = WriteAll(cache, EncodeCatalog(s_scan[s]), clock)
    /\ rebuilt' = rebuilt \cup {EncodeCatalog(s_scan[s])}
    /\ s_catalog' = [s_catalog EXCEPT ![s] = s_scan[s]]
    /\ s_pc' = [s_pc EXCEPT ![s] = "done"]
    /\ UNCHANGED <<s_scan, s_fresh>>
    /\ SessionFrame

\* the load branch
SessionLoad(s) ==
    /\ s_pc[s] = "load"
    /\ s_catalog' = [s_catalog EXCEPT ![s] = LoadCache(cache.content)]
    /\ s_pc' = [s_pc EXCEPT ![s] = "done"]
    /\ UNCHANGED <<cache, s_scan, s_fresh, rebuilt>>
    /\ SessionFrame

\* the launcher is started again after it ended or crashed
SessionRestart(s) ==
    /\ s_pc[s] \in {"done", "crashed"}
    /\ s_pc' = [s_pc EXCEPT ![s] = "start"]
    /\ s_scan' = [s_scan EXCEPT ![s] = <<>>]
    /\ s_catalog' = [s_catalog EXCEPT ![s] = <<>>]
    /\ s_fresh' = [s_fresh EXCEPT ![s] = <<>>]
    /\ UNCHANGED <<cache, rebuilt>>
    /\ SessionFrame

OverlapNext ==
    \/ \E s \in Sessions :
          \/ SessionCheck(s)
          \/ SessionScan(s)
          \/ SessionWrite(s)
          \/ SessionLoad(s)
          \/ SessionRestart(s)
    \/ Tick
    \/ \E d \in DirNames, f \in FileIds : AddFile(d, f)

OverlapSpec == OverlapInit /\ [][OverlapNext]_vars

-----------------------------------------------------------------------------
(* The cache encoding taken alone: a Catalog written and loaded again *)

\* entries a scan can produce: binaries named `a`, `b`, `a b`, and desktop
\* entries with a plain name and command, a command ending in a space, a
\* command holding `:` and a name holding ` - `
RtPool ==
    {new_binary(<<"a">>),
     new_binary(<<"b">>),
     new_binary(<<"a", " ", "b">>),
     new_desktop_file(<<"b">>, <<"a">>),
     new_desktop_file(<<"a", " ">>, <<"b">>),
     new_desktop_file(<<"a", ":", "b">>, <<"c">>),
     new_desktop_file(<<"a">>, <<"b", " ", "-", " ", "c">>)}

\* the Catalogs: what sort and dedup leave of up to MaxRtLen scanned entries
RtCatalogs == {SortDedup(v) : v \in UNION {[1..n -> RtPool] : n \in 0..MaxRtLen}}

RtInit ==
    /\ rt_catalog \in RtCatalogs
    /\ rt_file = <<>>
    /\ rt_loaded = <<>>
    /\ rt_pc = "start"
    /\ UiIdle
    /\ CacheIdle
    /\ FnIdle
    /\ SessIdle

\* the write branch: the bytes handed to write_all
RtEncode ==
    /\ rt_pc = "start"
    /\ rt_file' = EncodeCatalog(rt_catalog)
    /\ rt_pc' = "encoded"
    /\ UNCHANGED <<rt_catalog, rt_loaded, uiVars, cacheVars, fnVars, sessVars>>

\* the load branch over those bytes
RtDecode ==
    /\ rt_pc = "encoded"
    /\ rt_loaded' = LoadCache(rt_file)
    /\ rt_pc' = "decoded"
    /\ UNCHANGED <<rt_catalog, rt_file, uiVars, cacheVars, fnVars, sessVars>>

RtNext == RtEncode \/ RtDecode

RoundTripSpec == RtInit /\ [][RtNext]_vars

-----------------------------------------------------------------------------
(* get_binary_dirs taken alone, src/src/executables.rs:78-102 *)

\* the values of the PATH variable: directory names joined by ":"
PathValues ==
    {Join(v, <<":">>) : v \in StringsOf(DirNames, 0, MaxPathEntries)}

\* the filesystem in which exactly the directories of `existing` exist
FsOf(existing) ==
    [d \in DirNames |-> [exists |-> d \in existing, mtime |-> 0, entries |-> {}]]

ResolverInit ==
    /\ fn_in \in [path_var : PathValues,
                  extra_directories : StringsOf(DirNames, 0, MaxPathEntries),
                  ignored_directories : StringsOf(DirNames, 0, MaxPathEntries),
                  existing : SUBSET DirNames]
    /\ fn_out = <<>>
    /\ fn_pc = "start"
    /\ UiIdle
    /\ CacheIdle
    /\ RtIdle
    /\ SessIdle

\* get_binary_dirs(config)
Resolve ==
    /\ fn_pc = "start"
    /\ fn_out' = get_binary_dirs(Split(fn_in.path_var, <<":">>),
                                 fn_in.extra_directories,
                                 fn_in.ignored_directories,
                                 FsOf(fn_in.existing))
    /\ fn_pc' = "done"
    /\ UNCHANGED <<fn_in, uiVars, cacheVars, rtVars, sessVars>>

ResolverNext == Resolve

ResolverSpec == ResolverInit /\ [][ResolverNext]_vars

-----------------------------------------------------------------------------
(* The desktop branch of get_executables_from_directory taken alone,       *)
(* src/src/executables.rs:270-301                                          *)

\* the lines a desktop file is made of
DesktopLines ==
    {<<"N", "a", "m", "e", "=", "a">>,
     <<"N", "a", "m", "e", "=", "b">>,
     <<"E", "x", "e", "c", "=", "a">>,
     <<"E", "x", "e", "c", "=", "b">>,
     <<"c">>}

\* the directory entry of a desktop file with the given lines
DesktopFile(ls) ==
    [name |-> <<"g", ".", "d", "e", "s", "k", "t", "o", "p">>,
     ftype |-> "file", mode |-> 420, lines |-> ls]

ParseInit ==
    /\ fn_in \in StringsOf(DesktopLines, 0, MaxLines)
    /\ fn_out = <<>>
    /\ fn_pc = "start"
    /\ UiIdle
    /\ CacheIdle
    /\ RtIdle
    /\ SessIdle

\* one turn of the entry loop on a desktop file, desktop files included
Parse ==
    /\ fn_pc = "start"
    /\ fn_out' = ScanEntry(DesktopFile(fn_in), TRUE, TRUE)
    /\ fn_pc' = "done"
    /\ UNCHANGED <<fn_in, uiVars, cacheVars, rtVars, sessVars>>

ParseNext == Parse

ParseSpec == ParseInit /\ [][ParseNext]_vars

-----------------------------------------------------------------------------
(* The Exec line of the desktop branch taken alone,                        *)
(* src/src/executables.rs:278-282                                          *)

\* the characters an Exec value is made of: letters, a digit, the
\* underscore, the percent sign and the space
ExecChars == {"a", "U", "1", "_", "%", " "}

ExecInit ==
    /\ fn_in \in StringsOf(ExecChars, 0, MaxExecLen)
    /\ fn_out = <<>>
    /\ fn_pc = "start"
    /\ UiIdle
    /\ CacheIdle
    /\ RtIdle
    /\ SessIdle

\* one turn of the entry loop on the desktop file with the lines `Name=a`
\* and `Exec=<fn_in>`
ParseExec ==
    /\ fn_pc = "start"
    /\ fn_out' = ScanEntry(DesktopFile(<<<<"N", "a", "m", "e", "=", "a">>,
                                         <<"E", "x", "e", "c", "=">> \o fn_in>>),
                           TRUE, TRUE)
    /\ fn_pc' = "done"
    /\ UNCHANGED <<fn_in, uiVars, cacheVars, rtVars, sessVars>>

ExecNext == ParseExec

ExecSpec == ExecInit /\ [][ExecNext]_vars

-----------------------------------------------------------------------------
(* get_executables_from_directory taken alone,                             *)
(* src/src/executables.rs:228-325                                          *)

\* the entries a directory is made of: regular files, a directory and a
\* symlink with their permission modes (0o755 = 493, 0o644 = 420,
\* 0o777 = 511, 0o611 = 393), and desktop files with their lines
ScanPool ==
    {[name |-> <<"a">>, ftype |-> "file", mode |-> 493,
      lines |-> <<>>],
     [name |-> <<"b">>, ftype |-> "file", mode |-> 420,
      lines |-> <<>>],
     [name |-> <<"c">>, ftype |-> "dir", mode |-> 493,
      lines |-> <<>>],
     [name |-> <<"p">>, ftype |-> "symlink", mode |-> 511,
      lines |-> <<>>],
     [name |-> <<"q">>, ftype |-> "file", mode |-> 393,
      lines |-> <<>>],
     [name |-> <<"g", ".", "d", "e", "s", "k", "t", "o", "p">>, ftype |-> "file", mode |-> 420,
      lines |-> <<<<"N", "a", "m", "e", "=", "b">>, <<"E", "x", "e", "c", "=", "a">>>>],
     [name |-> <<"h", ".", "d", "e", "s", "k", "t", "o", "p">>, ftype |-> "file", mode |-> 420,
      lines |-> <<<<"N", "a", "m", "e">>, <<"E", "x", "e", "c", "=", "a">>>>],
     [name |-> <<"x", ".", "d", "e", "s", "k", "t", "o", "p">>, ftype |-> "file", mode |-> 493,
      lines |-> <<<<"N", "a", "m", "e", "=", "a">>, <<"E", "x", "e", "c", "=", "b">>>>]}

\* read_dir: the entries of a directory in the order they are returned,
\* no two with the same name
ScanListings ==
    {l \in StringsOf(ScanPool, 0, MaxEntries) :
        \A i, j \in 1..Len(l) : i # j => l[i].name # l[j].name}

ScanInit ==
    /\ fn_in \in [listing : ScanListings,
                  include_binaries : BOOLEAN,
                  include_desktop_files : BOOLEAN]
    /\ fn_out = <<>>
    /\ fn_pc = "start"
    /\ UiIdle
    /\ CacheIdle
    /\ RtIdle
    /\ SessIdle

\* get_executables_from_directory(dir, include_binaries, include_desktop_files)
Scan ==
    /\ fn_pc = "start"
    /\ fn_out' = ScanListing(fn_in.listing, fn_in.include_binaries,
                             fn_in.include_desktop_files)
    /\ fn_pc' = "done"
    /\ UNCHANGED <<fn_in, uiVars, cacheVars, rtVars, sessVars>>

ScanNext == Scan

ScanSpec == ScanInit /\ [][ScanNext]_vars

-----------------------------------------------------------------------------
(* The rebuild branch of get_executables_for_config_and_paths taken alone, *)
(* over one directory, src/src/executables.rs:161-194                      *)

\* the entries of the directory: executable files, one of them with a
\* space in its name, a file that is not executable, and desktop files
RebuildPool ==
    {[name |-> <<"a">>, ftype |-> "file", mode |-> 493,
      lines |-> <<>>],
     [name |-> <<"a", " ", "b">>, ftype |-> "file", mode |-> 493,
      lines |-> <<>>],
     [name |-> <<"b">>, ftype |-> "file", mode |-> 420,
      lines |-> <<>>],
     [name |-> <<"g", ".", "d", "e", "s", "k", "t", "o", "p">>, ftype |-> "file", mode |-> 420,
      lines |-> <<<<"N", "a", "m", "e", "=", "b">>, <<"E", "x", "e", "c", "=", "a">>>>],
     [name |-> <<"h", ".", "d", "e", "s", "k", "t", "o", "p">>, ftype |-> "file", mode |-> 420,
      lines |-> <<<<"N", "a", "m", "e", "=", "c">>, <<"E", "x", "e", "c", "=", "a", " ", "b">>>>]}

RebuildListings ==
    {l \in StringsOf(RebuildPool, 0, MaxEntries) :
        \A i, j \in 1..Len(l) : i # j => l[i].name # l[j].name}

\* the cache file as should_invalidate_cache creates it
CreatedFile == [exists |-> TRUE, mtime |-> 0, content |-> <<>>]

\* the rebuild branch on the result of the scan
RebuildFrom(scan) == Rebuild(CreatedFile, scan, SortDedup(scan.out), 0)

RebuildInit ==
    /\ fn_in \in [listing : RebuildListings,
                  include_binaries : BOOLEAN,
                  include_desktop_files : BOOLEAN]
    /\ fn_out = <<>>
    /\ fn_pc = "start"
    /\ UiIdle
    /\ CacheIdle
    /\ RtIdle
    /\ SessIdle

\* scan, sort, dedup and write of a session whose cache file was missing
RebuildCache ==
    /\ fn_pc = "start"
    /\ fn_out' = RebuildFrom(ScanListing(fn_in.listing, fn_in.include_binaries,
                                         fn_in.include_desktop_files))
    /\ fn_pc' = "done"
    /\ UNCHANGED <<fn_in, uiVars, cacheVars, rtVars, sessVars>>

RebuildNext == RebuildCache

RebuildSpec == RebuildInit /\ [][RebuildNext]_vars

-----------------------------------------------------------------------------
(* The load branch of get_executables_for_config_and_paths taken alone,    *)
(* src/src/executables.rs:195-223                                          *)

\* the lines a cache file is made of
CacheLines ==
    {<<"a">>,
     <<"b">>,
     <<"a", " ", "b">>,
     <<"D", ":", "a", " ", "-", " ", "b">>,
     <<"D", ":", "a">>,
     <<"D", ":", "a", " ", "-", " ", "b", " ", "-", " ", "c">>,
     <<"D", ":", "a", " ", "-", " ", "b", ":", "c">>}

LoadInit ==
    /\ fn_in \in StringsOf(CacheLines, 0, MaxLines)
    /\ fn_out = <<>>
    /\ fn_pc = "start"
    /\ UiIdle
    /\ CacheIdle
    /\ RtIdle
    /\ SessIdle

\* the load branch on the file whose lines are fn_in
Load ==
    /\ fn_pc = "start"
    /\ fn_out' = LoadCache(Join(fn_in, <<"\n">>))
    /\ fn_pc' = "done"
    /\ UNCHANGED <<fn_in, uiVars, cacheVars, rtVars, sessVars>>

LoadNext == Load

LoadSpec == LoadInit /\ [][LoadNext]_vars

-----------------------------------------------------------------------------
(* Cache Store properties *)

SeqToSet(v) == {v[i] : i \in 1..Len(v)}

\* the staleness rule: the cache file is absent, or a resolved directory
\* that exists has a modification time strictly greater than the file's
Stale(ps, file, fs) ==
    \/ ~file.exists
    \/ \E i \in 1..Len(ps) :
          /\ ps[i] \in DOMAIN fs
          /\ fs[ps[i]].exists
          /\ fs[ps[i]].mtime > file.mtime

\* C1: a session start takes the rebuild branch if and only if the cache
\* file is absent or an existing resolved directory is strictly newer than
\* it; otherwise the Catalog is what the cache file decodes to and the file
\* is left as it was.
C1_RebuildIffStale ==
    [][lastOp' = "session" =>
         /\ (decision' = "rebuild") <=> Stale(paths', cache, dirs)
         /\ (decision' = "load") <=> ~Stale(paths', cache, dirs)
         /\ decision' = "load" =>
               /\ catalog' = LoadCache(cache.content)
               /\ cache' = cache]_vars

\* C1 witness: a session has just loaded the cache although a resolved
\* directory has the very mtime of the cache file and another resolved
\* directory does not exist.
C1_Witness ==
    /\ lastOp = "session"
    /\ decision = "load"
    /\ \E i \in 1..Len(paths) :
          dirs[paths[i]].exists /\ dirs[paths[i]].mtime = cache.mtime
    /\ \E i \in 1..Len(paths) : ~dirs[paths[i]].exists

\* C2: after a rebuild the cache file holds exactly the encoded lines of
\* the new Catalog, joined by newlines.
C2_CacheIsEncodedCatalog ==
    (lastOp = "session" /\ decision = "rebuild" /\ startStatus = "ok")
        => cache.content = EncodeCatalog(catalog)

\* the entries a round trip is to keep: all but binaries with a space
RtKept == {e \in SeqToSet(rt_catalog) :
              e.display_name # <<>> \/ ~Contains(e.command, <<" ">>)}

\* C3: a Catalog encoded and decoded gives back the same set of entries,
\* command and display_name identical, less the binary entries whose
\* command contains a space.
C3_RoundTrip ==
    rt_pc = "decoded" => SeqToSet(rt_loaded) = RtKept

\* C4: the Catalog of a session, scanned or loaded, is strictly ascending
\* in display_text (sorted, no two entries with the same display_text).
C4_CatalogSortedUnique ==
    (decision # "none" /\ startStatus = "ok") =>
        \A i \in 1..(Len(catalog) - 1) :
            StrLess(get_display_text(catalog[i]), get_display_text(catalog[i + 1]))

\* C28: after a session that rebuilt the Catalog, whatever the Catalog and
\* whether or not the cache file existed before, a session that starts
\* before any directory is modified judges the cache fresh.
C28_FreshAfterRebuild ==
    (lastOp = "session" /\ decision = "rebuild" /\ startStatus = "ok") =>
        ~should_invalidate_cache(
            cache,
            get_binary_dirs(PathVar, ExtraDirectories, IgnoredDirectories, dirs),
            dirs, clock).invalidate

\* C30: whenever a session finds the cache file present and judges it
\* fresh, the content of the file is the complete output of a rebuild that
\* finished before, also after an earlier session created the file and
\* stopped before writing, and while another session is between creating
\* the file and writing it.
C30_FreshCacheIsComplete ==
    \A s \in Sessions :
        s_fresh[s] # <<>> => s_fresh[s][1] \in rebuilt

\* what a scan of the resolved directories as they are now can return
ScansNow ==
    {ScanPaths(get_binary_dirs(PathVar, ExtraDirectories, IgnoredDirectories, dirs),
               1, dirs, listing, config) : listing \in Listings}

\* C31: when a rebuild writes a Catalog that the directories no longer
\* scan to, because an entry was added after they were listed and before
\* the write, a session that starts after the write judges the cache stale.
C31_ChangeDuringRebuildSeen ==
    [][\A s \in Sessions :
         (/\ SessionWrite(s)
          /\ \A scan \in ScansNow :
                ~scan.panic /\ SortDedup(scan.out) # s_scan[s]) =>
            should_invalidate_cache(
                cache',
                get_binary_dirs(PathVar, ExtraDirectories, IgnoredDirectories, dirs'),
                dirs', clock').invalidate]_vars

-----------------------------------------------------------------------------
(* Search Engine and Selection Controller properties *)

\* the cap K of the ranked list (Vec::with_capacity(8))
K == 8

\* display text of the entry at ranked position p (1-based)
RankedText(p) == executables[matching_executable_indexes[p] + 1]

\* C5: for a non-empty query every entry of the ranked list equals the
\* query or contains it, and every position holding an entry equal to the
\* query comes before every position holding an entry that only contains it.
C5_MatchesExactFirst ==
    search_entry # <<>> =>
        /\ \A p \in 1..Len(matching_executable_indexes) :
              \/ RankedText(p) = search_entry
              \/ Contains(RankedText(p), search_entry)
        /\ \A p, q \in 1..Len(matching_executable_indexes) :
              (RankedText(p) = search_entry /\ RankedText(q) # search_entry)
                  => p < q

\* C6: the ranked list never holds more than K entries.
C6_RankedAtMostK == Len(matching_executable_indexes) <= K

\* C7: selected is a position of the ranked list when the list is
\* non-empty and is 0 when the list is empty.
C7_SelectedInRange ==
    IF matching_executable_indexes # <<>>
    THEN selected_index \in 0..(Len(matching_executable_indexes) - 1)
    ELSE selected_index = 0

\* C8: ArrowDown moves selected up by one but not past the last ranked
\* position, ArrowUp moves it down by one but not below 0, and on an empty
\* ranked list both leave selected unchanged; neither aborts the session.
C8_ArrowsSaturate ==
    LET len == Len(matching_executable_indexes)
    IN  /\ lastEvent = "ArrowDown" =>
              /\ status = "running"
              /\ selected_index = IF len = 0 THEN prevSelected
                                  ELSE Min(prevSelected + 1, len - 1)
        /\ lastEvent = "ArrowUp" =>
              /\ status = "running"
              /\ selected_index = IF len = 0 \/ prevSelected = 0 THEN prevSelected
                                  ELSE prevSelected - 1

\* an Insert(char) event: a character or the space key appended to the query
InsertEvent == Space \/ \E c \in CharKeys : Insert(c)

\* C9: every Insert and every Backspace leaves selected at 0, whatever it
\* was before.
C9_EditResetsSelected ==
    [][(InsertEvent \/ Backspace) => selected_index' = 0]_vars

\* C9 witness: an edit has just been handled from a state where selected
\* was not 0.
C9_Witness ==
    /\ lastEvent \in {"Insert", "Backspace"}
    /\ prevSelected > 0
    /\ selected_index = 0

\* C10: Enter on a non-empty ranked list ends the session and launches
\* nothing but ranked[selected]; Enter on an empty ranked list changes
\* neither the session status, nor what was launched, nor
\* (query, ranked, selected).
C10_EnterCommitsOrNoop ==
    [][Enter =>
         IF matching_executable_indexes # <<>>
         THEN /\ status' # "running"
              /\ launched' \in {launched,
                       Append(launched, RankedText(selected_index + 1))}
         ELSE UNCHANGED <<status, launched, search_entry,
                          matching_executable_indexes, selected_index>>]_vars

\* C22: with an empty query the ranked list is empty and selected is 0, at
\* session start and after a Backspace that leaves the query empty; a
\* Backspace on an empty query changes neither the query, nor the ranked
\* list, nor selected.
C22_EmptyQueryEmptyRanked ==
    [][/\ lastEvent = "none" =>
            /\ search_entry = <<>>
            /\ matching_executable_indexes = <<>>
            /\ selected_index = 0
       /\ (Backspace /\ search_entry' = <<>>) =>
            /\ matching_executable_indexes' = <<>>
            /\ selected_index' = 0
       /\ (Backspace /\ search_entry = <<>>) =>
            UNCHANGED <<search_entry, matching_executable_indexes,
                        selected_index>>]_vars

\* C23: the entries of the ranked list whose text contains the query
\* without being equal to it stand in ascending Catalog order.
C23_ContainmentInCatalogOrder ==
    \A p, q \in 1..Len(matching_executable_indexes) :
        (/\ p < q
         /\ RankedText(p) # search_entry
         /\ RankedText(q) # search_entry)
        => matching_executable_indexes[p] < matching_executable_indexes[q]

\* C23 witness: a ranked list with the exact match in front and at least
\* two entries that match by containment only.
C23_Witness ==
    /\ search_entry # <<>>
    /\ Len(matching_executable_indexes) >= 4
    /\ RankedText(1) = search_entry
    /\ RankedText(3) # search_entry
    /\ RankedText(4) # search_entry
    /\ matching_executable_indexes[3] < matching_executable_indexes[4]

\* C25: for every ranked position i in 0..9, the row displayed for it
\* carries a hint with a digit, and that digit, pressed with the modifier
\* held, addresses the entry whose text the row shows.
C25_HintMatchesHotkey ==
    \A i \in 0..9 :
        i < Len(matching_executable_indexes) =>
            LET row == get_text_buffers(executables, matching_executable_indexes,
                                        search_entry)[i + 2]
                idx == HotkeyIndex(row[Len(row) - 1])
            IN  /\ Len(row) >= 9
                /\ idx # <<>>
                /\ get_executable(executables, matching_executable_indexes, idx[1])
                       = <<SubSeq(row, 1, Len(row) - 9)>>

\* C25 witness: a running session that displays at least ten rows whose
\* first and tenth entries differ.
C25_Witness ==
    /\ status = "running"
    /\ Len(matching_executable_indexes) >= 10
    /\ RankedText(1) # RankedText(10)
    /\ get_text_buffers(executables, matching_executable_indexes,
                        search_entry)[11]
           = RankedText(10) \o <<" ", "(", "C", "t", "r", "l", "+", "0", ")">>

\* C26: after every edit (Insert or Backspace) the ranked list is the one
\* computed from the Catalog and the query alone and selected is 0,
\* whatever events came before: two histories that end with an edit and
\* leave the same query on the same Catalog give the same ranked list.
C26_RankedFromQueryAlone ==
    lastEvent \in {"Insert", "Backspace"} =>
        /\ matching_executable_indexes =
               update_matching_executable_indexes(executables, search_entry, 0).ranked
        /\ selected_index = 0

\* C26 witness: a Backspace left a non-empty query with a non-empty ranked
\* list after selected had been moved off the first position.
C26_Witness ==
    /\ lastEvent = "Backspace"
    /\ prevSelected > 0
    /\ search_entry # <<>>
    /\ matching_executable_indexes # <<>>
    /\ selected_index = 0

\* C29: no Catalog index stands at two positions of the ranked list, also
\* when the text of an entry is equal to the query.
C29_RankedWithoutRepeats ==
    \A p, q \in 1..Len(matching_executable_indexes) :
        p # q => matching_executable_indexes[p] # matching_executable_indexes[q]

\* the Catalog indices (0-based) of the entries whose text contains the query
MatchingIndices ==
    {i \in 0..(Len(executables) - 1) : Contains(executables[i + 1], search_entry)}

\* C32: for a non-empty query that at most K Catalog entries contain,
\* every Catalog entry whose text contains the query stands in the ranked
\* list.
C32_NoMatchOmitted ==
    (search_entry # <<>> /\ Cardinality(MatchingIndices) <= K) =>
        \A i \in MatchingIndices :
            \E p \in 1..Len(matching_executable_indexes) :
                matching_executable_indexes[p] = i

\* C32 witness: a key was typed and the query is contained in at least
\* three and at most K entries of a Catalog, one of them not equal to it,
\* and in not all of the Catalog's entries; each of them is in the ranked
\* list.
C32_Witness ==
    /\ lastEvent = "Insert"
    /\ search_entry # <<>>
    /\ Cardinality(MatchingIndices) \in 3..K
    /\ Cardinality(MatchingIndices) < Len(executables)
    /\ \E i \in MatchingIndices : executables[i + 1] # search_entry
    /\ \A i \in MatchingIndices :
          \E p \in 1..Len(matching_executable_indexes) :
              matching_executable_indexes[p] = i

\* C33: ArrowUp and ArrowDown leave the query and the ranked list as they
\* were, the modifier going down or up leaves the query, the ranked list and
\* selected as they were, and no event changes the Catalog or the resolved
\* directory list.
C33_EventsKeepTheRest ==
    [][/\ lastEvent' \in {"ArrowUp", "ArrowDown"} =>
            UNCHANGED <<search_entry, matching_executable_indexes>>
       /\ lastEvent' \in {"CtrlDown", "CtrlUp"} =>
            UNCHANGED <<search_entry, matching_executable_indexes, selected_index>>
       /\ UNCHANGED <<executables, paths>>]_vars

\* C33 witness: ArrowDown has just moved selected on a ranked list of
\* several entries, with a typed query and the modifier held, so that the
\* modifier went down after the query was typed.
C33_Witness ==
    /\ lastEvent = "ArrowDown"
    /\ selected_index = prevSelected + 1
    /\ search_entry # <<>>
    /\ Len(matching_executable_indexes) >= 2
    /\ ctrl_pressed
    /\ status = "running"

\* the number a digit key stands for
DigitOf(c) == Code(c) - Code("0")

\* C11: with the modifier held, digit d addresses ranked position d-1 for
\* d in 1..9 and position 9 for d = 0; when that position exists the
\* session ends and nothing but the entry at that position is launched,
\* and when it does not exist the session status, what was launched and
\* the query are unchanged.
C11_HotkeyCommitsPosition ==
    [][\A c \in DigitKeys :
         Hotkey(c) =>
           LET pos == IF DigitOf(c) = 0 THEN 9 ELSE DigitOf(c) - 1
           IN  IF pos < Len(matching_executable_indexes)
               THEN /\ status' # "running"
                    /\ launched' \in {launched,
                             Append(launched, RankedText(pos + 1))}
               ELSE UNCHANGED <<status, launched, search_entry>>]_vars

\* C11 witness: the digit 0 was pressed with the modifier held on a ranked
\* list of at least ten entries and the entry at position 9 was launched.
C11_Witness ==
    /\ lastEvent = "Hotkey"
    /\ ctrl_pressed
    /\ status = "exited"
    /\ Len(matching_executable_indexes) >= 10
    /\ launched = <<RankedText(10)>>
    /\ RankedText(10) # RankedText(1)

C12_ModifierGatesCharacters ==
    [][/\ lastEvent = "none" => ~ctrl_pressed
       /\ lastEvent' = "CtrlDown" => ctrl_pressed'
       /\ lastEvent' = "CtrlUp" => ~ctrl_pressed'
       /\ lastEvent' \notin {"CtrlDown", "CtrlUp"} => ctrl_pressed' = ctrl_pressed
       /\ \A c \in CharKeys \cup DigitKeys :
            /\ Insert(c) /\ ~ctrl_pressed =>
                  /\ search_entry' = Append(search_entry, c)
                  /\ UNCHANGED <<status, launched>>
            /\ Hotkey(c) \/ Insert(c) =>
                  (ctrl_pressed => search_entry' = search_entry)]_vars

\* C12 witness: after the modifier went down, up and down again, a
\* character key pressed with the flag set left a typed query as it was.
C12_Witness ==
    /\ lastEvent = "Hotkey"
    /\ ctrl_pressed
    /\ status = "running"
    /\ search_entry # <<>>
    /\ launched = <<>>

\* C13: in every state of a running session, whatever the query, the
\* ranked list, the selected position and the modifier flag, a Close and
\* an Escape event can be handled, and handling either ends the session
\* normally without launching anything.
C13_CancelFromAnywhere ==
    /\ [](Running => (ENABLED CloseRequested) /\ (ENABLED Escape))
    /\ [][CloseRequested \/ Escape =>
            /\ status' = "exited"
            /\ launched' = launched]_vars

\* C13 witness: Escape ended a session that had a typed query, a ranked
\* list, a selected position past the first and the modifier held.
C13_Witness ==
    /\ lastEvent = "Escape"
    /\ status = "exited"
    /\ launched = <<>>
    /\ search_entry # <<>>
    /\ Len(matching_executable_indexes) > 1
    /\ selected_index > 0
    /\ ctrl_pressed

\* C14: a commit whose launch fails, because the command is found in no
\* directory or because the spawn fails, ends the session exactly as a
\* successful launch does: normally, never by a fatal error exit.
C14_FailedLaunchOnlyLogged ==
    (lastEvent \in {"Enter", "Hotkey"} /\ status # "running")
        => status = "exited"

-----------------------------------------------------------------------------
(* Directory Resolver properties *)

\* C15: for every PATH value, extra_directories and ignored_directories,
\* the resolved directories are in ascending order without duplicates, and
\* every one of them exists and is not listed in ignored_directories,
\* whether it came from PATH or from extra_directories.
C15_ResolvedDirsClean ==
    fn_pc = "done" =>
        /\ \A i \in 1..(Len(fn_out) - 1) : StrLess(fn_out[i], fn_out[i + 1])
        /\ \A i \in 1..Len(fn_out) :
              /\ fn_out[i] \in fn_in.existing
              /\ ~InSeq(fn_in.ignored_directories, fn_out[i])

-----------------------------------------------------------------------------
(* Catalog Builder properties *)

\* the value of the first line of ls that gives key a value: the text after
\* "key=" (none when no line starts with "key=")
RECURSIVE FirstValue(_, _)
FirstValue(ls, key) ==
    IF ls = <<>> THEN <<>>
    ELSE IF StartsWith(Head(ls), key \o <<"=">>)
    THEN <<SubSeq(Head(ls), Len(key) + 2, Len(Head(ls)))>>
    ELSE FirstValue(Tail(ls), key)

\* C16: a desktop file yields the entry whose display_name is the value of
\* its first Name line and whose command is the value of its first Exec
\* line, later Name and Exec lines replacing nothing, and it yields no
\* entry when it has no Name line or no Exec line.
C16_FirstNameFirstExec ==
    fn_pc = "done" =>
        fn_out.out =
            IF FirstValue(fn_in, <<"N", "a", "m", "e">>) = <<>> \/ FirstValue(fn_in, <<"E", "x", "e", "c">>) = <<>>
            THEN <<>>
            ELSE <<new_desktop_file(FirstValue(fn_in, <<"E", "x", "e", "c">>)[1],
                                    FirstValue(fn_in, <<"N", "a", "m", "e">>)[1])>>

\* the letters among the characters of the model
LetterChars == {"a", "b", "c", "g", "h", "p", "q", "D", "U", "N", "E", "m", "e", "x"}

\* s without its two-character tokens made of `%` and one letter
RECURSIVE StripLetterCodes(_)
StripLetterCodes(s) ==
    IF s = <<>> THEN <<>>
    ELSE IF Head(s) = "%" /\ Len(s) >= 2 /\ s[2] \in LetterChars
         THEN StripLetterCodes(SubSeq(s, 3, Len(s)))
         ELSE <<Head(s)>> \o StripLetterCodes(Tail(s))

\* C21: the command stored for an Exec value is that value without its
\* tokens made of `%` followed by one letter, every other character kept
\* in place: `%` followed by a digit or an underscore stays.
C21_OnlyLetterCodesStripped ==
    fn_pc = "done" =>
        fn_out = [panic |-> FALSE,
                  out |-> <<new_desktop_file(StripLetterCodes(fn_in), <<"a">>)>>]

\* C17: whatever the lines of the desktop files of a directory, lines that
\* begin with Name or Exec without a `=` included, the scan returns, the
\* result has at most one entry per directory entry, and it holds every
\* entry that each directory entry yields when scanned on its own.
C17_ScanToleratesMalformed ==
    fn_pc = "done" =>
        /\ ~fn_out.panic
        /\ Len(fn_out.out) <= Len(fn_in.listing)
        /\ \A i \in 1..Len(fn_in.listing) :
              ~ScanEntry(fn_in.listing[i], fn_in.include_binaries,
                         fn_in.include_desktop_files).panic
              => SeqToSet(ScanEntry(fn_in.listing[i], fn_in.include_binaries,
                                    fn_in.include_desktop_files).out)
                     \subseteq SeqToSet(fn_out.out)

\* one of the execute bits of owner (0o100), group (0o010) or other (0o001)
\* is set in mode
AnyExecBit(mode) ==
    \/ (mode \div 64) % 2 = 1
    \/ (mode \div 8) % 2 = 1
    \/ mode % 2 = 1

\* C19: with binaries included, a directory entry that is not a desktop
\* file is in the result as a binary exactly when it is a regular file or a
\* symlink and at least one of its execute bits (owner, group or other) is
\* set; a directory and a file without any execute bit never are.
C19_BinaryIffAnyExecBit ==
    (fn_pc = "done" /\ ~fn_out.panic /\ fn_in.include_binaries) =>
        \A i \in 1..Len(fn_in.listing) :
            ~is_desktop_file(fn_in.listing[i].name) =>
                (new_binary(fn_in.listing[i].name) \in SeqToSet(fn_out.out)
                 <=> /\ fn_in.listing[i].ftype \in {"file", "symlink"}
                     /\ AnyExecBit(fn_in.listing[i].mode))

\* C20: for every directory content and both flags, the result holds a
\* binary entry (no display_name) only when include_binaries is set and a
\* desktop entry only when include_desktop_files is set; with both flags
\* off the result is empty, executable desktop files included.
C20_FlagsGateEntries ==
    fn_pc = "done" =>
        \A i \in 1..Len(fn_out.out) :
            IF fn_out.out[i].display_name = <<>>
            THEN fn_in.include_binaries
            ELSE fn_in.include_desktop_files

-----------------------------------------------------------------------------
(* Cache loading properties *)

\* C24: after a rebuild the cache file has one line per Catalog entry, no
\* line that does not start with `D:` contains a space, and the line of
\* every desktop entry starts with `D:`.
C24_CacheLineShapes ==
    fn_pc = "done" =>
        /\ Len(Lines(fn_out.file.content)) = Len(fn_out.executables)
        /\ \A i \in 1..Len(Lines(fn_out.file.content)) :
              IF fn_out.executables[i].display_name # <<>>
              THEN StartsWith(Lines(fn_out.file.content)[i], <<"D", ":">>)
              ELSE ~Contains(Lines(fn_out.file.content)[i], <<" ">>)

\* the entries a cache line stands for: a `D:` line whose text after `D:`
\* splits at " - " into exactly a name and a command is that desktop entry,
\* a line without a space is that binary, any other line is malformed
WellFormed(parts, entry) ==
    IF StartsWith(entry, <<"D", ":">>)
    THEN IF Len(parts) = 2 THEN <<new_desktop_file(parts[2], parts[1])>> ELSE <<>>
    ELSE IF Contains(entry, <<" ">>) THEN <<>>
    ELSE <<new_binary(entry)>>

RECURSIVE WellFormedEntries(_)
WellFormedEntries(ls) ==
    IF ls = <<>> THEN <<>>
    ELSE WellFormed(Split(SubSeq(Head(ls), 3, Len(Head(ls))), <<" ", "-", " ">>),
                    Head(ls))
         \o WellFormedEntries(Tail(ls))

\* C18: loading a cache file skips its malformed lines and returns, in
\* file order, one entry for every well-formed line, a `D:` line giving the
\* whole name before " - " and the whole command after it.
C18_LoadKeepsWellFormed ==
    fn_pc = "done" => fn_out = WellFormedEntries(fn_in)

====
